---------------------------- MODULE Spec2Model ----------------------------
(***************************************************************************)
(* A model of jaeger_client/codecs.py: the four span-context codecs        *)
(* (TextCodec, BinaryCodec, ZipkinCodec, B3Codec) and their helpers.       *)
(*                                                                         *)
(* Representation of Python values                                         *)
(*   str      a sequence of code points, "a=1" is <<97, 61, 49>>           *)
(*   bytes    a sequence of numbers 0..255                                 *)
(*   int      a non-negative Python integer of any width is its sequence   *)
(*            of hexadecimal digits (0..15), most significant first, with  *)
(*            no leading zero digit; 0 is <<>>.  flags is a small Nat.     *)
(*   None     an optional value is a sequence of length at most one:       *)
(*            None is <<>> and the value x is <<x>>                        *)
(*   dict     a sequence of <<key, value>> pairs in insertion order        *)
(***************************************************************************)
EXTENDS Integers, Sequences, FiniteSets, TLC

VARIABLES
    config,     \* the arguments the codec was constructed with
    codec,      \* the codec: its kind and the attributes __init__ sets
    ctx,        \* the span context handed to inject
    carrier,    \* the carrier handed to inject or extract
    header,     \* the header argument of _parse_baggage_header
    baggage,    \* the baggage argument of _parse_baggage_header
    result,     \* what the last call returned or raised
    pc          \* start, injected, received, parse; roundtrip, extracted, parsed

vars == <<config, codec, ctx, carrier, header, baggage, result, pc>>

None == <<>>

Some(x) == <<x>>

(***************************************************************************)
(* Generic sequence helpers.                                               *)
(***************************************************************************)
RECURSIVE Concat(_)
Concat(ss) == IF ss = <<>> THEN <<>> ELSE Head(ss) \o Concat(Tail(ss))

Min(a, b) == IF a < b THEN a ELSE b

Max(a, b) == IF a > b THEN a ELSE b

\* Python's s[a:b] for any integers a and b (negative ones count from the end).
PySlice(s, a, b) ==
    LET n  == Len(s)
        lo == IF a < 0 THEN Max(n + a, 0) ELSE Min(a, n)
        hi == IF b < 0 THEN Max(n + b, 0) ELSE Min(b, n)
    IN  IF lo >= hi THEN <<>> ELSE SubSeq(s, lo + 1, hi)

\* Python's s[a:].
PyFrom(s, a) == PySlice(s, a, Len(s))

(***************************************************************************)
(* dict: insertion-ordered sequence of <<key, value>> pairs.               *)
(***************************************************************************)
DictKeys(d) == {d[i][1] : i \in 1..Len(d)}

DictHas(d, k) == \E i \in 1..Len(d) : d[i][1] = k

DictGet(d, k) == d[CHOOSE i \in 1..Len(d) : d[i][1] = k][2]

\* d[k] = v
DictSet(d, k, v) ==
    IF DictHas(d, k)
    THEN [i \in 1..Len(d) |-> IF d[i][1] = k THEN <<k, v>> ELSE d[i]]
    ELSE Append(d, <<k, v>>)

\* Python's dict equality disregards the insertion order.
DictEq(d, e) ==
    /\ DictKeys(d) = DictKeys(e)
    /\ \A k \in DictKeys(d) : DictGet(d, k) = DictGet(e, k)

(***************************************************************************)
(* str methods.                                                            *)
(***************************************************************************)
\* str.lower() on one code point (ASCII and Latin-1 letters).
LowerChar(c) ==
    IF (c >= 65 /\ c <= 90) \/ (c >= 192 /\ c <= 222 /\ c # 215)
    THEN c + 32 ELSE c

Lower(s) == [i \in 1..Len(s) |-> LowerChar(s[i])]

\* s.replace('_', '-')
ReplaceUnderscore(s) == [i \in 1..Len(s) |-> IF s[i] = 95 THEN 45 ELSE s[i]]

StartsWith(s, p) == Len(p) <= Len(s) /\ SubSeq(s, 1, Len(p)) = p

IsSpace(c) == c \in {9, 10, 11, 12, 13, 32}

RECURSIVE LStrip(_)
LStrip(s) == IF s # <<>> /\ IsSpace(Head(s)) THEN LStrip(Tail(s)) ELSE s

RECURSIVE RStrip(_)
RStrip(s) ==
    IF s # <<>> /\ IsSpace(s[Len(s)]) THEN RStrip(SubSeq(s, 1, Len(s) - 1)) ELSE s

\* s.strip()
Strip(s) == RStrip(LStrip(s))

\* s.split(sep) for a one-character separator: never an empty list.
RECURSIVE Split(_, _)
Split(s, sep) ==
    IF \E i \in 1..Len(s) : s[i] = sep
    THEN LET i == CHOOSE j \in 1..Len(s) :
                     s[j] = sep /\ \A k \in 1..(j - 1) : s[k] # sep
         IN  <<SubSeq(s, 1, i - 1)>> \o Split(SubSeq(s, i + 1, Len(s)), sep)
    ELSE <<s>>

(***************************************************************************)
(* Hexadecimal digits, format(x, 'x') and int(s, 16).                      *)
(***************************************************************************)
IsHexDigit(c) ==
    (c >= 48 /\ c <= 57) \/ (c >= 97 /\ c <= 102) \/ (c >= 65 /\ c <= 70)

HexVal(c) == IF c <= 57 THEN c - 48 ELSE IF c >= 97 THEN c - 87 ELSE c - 55

\* The lower-case digit of format(x, 'x').
HexChar(n) == IF n < 10 THEN 48 + n ELSE 87 + n

\* The upper-case digit of '%02X'.
HexCharUpper(n) == IF n < 10 THEN 48 + n ELSE 55 + n

RECURSIVE StripZeros(_)
StripZeros(ds) == IF ds # <<>> /\ Head(ds) = 0 THEN StripZeros(Tail(ds)) ELSE ds

\* format(x, 'x') and '{:x}'.format(x) of a non-negative integer.
FormatHex(x) == IF x = <<>> THEN <<48>> ELSE [i \in 1..Len(x) |-> HexChar(x[i])]

\* A faulty variant of zfill: s.ljust(w, '0'), the zeros on the right.
ZFill_Right(s, w) == IF Len(s) >= w THEN s ELSE s \o [i \in 1..(w - Len(s)) |-> 48]

\* s.zfill(w)
ZFill(s, w) == IF Len(s) >= w THEN s ELSE [i \in 1..(w - Len(s)) |-> 48] \o s

\* The digits of an integer literal: hex digits, single underscores between them.
ValidDigits(d) ==
    /\ d # <<>>
    /\ \A i \in 1..Len(d) :
          \/ IsHexDigit(d[i])
          \/ /\ d[i] = 95
             /\ i > 1 /\ i < Len(d)
             /\ IsHexDigit(d[i - 1]) /\ IsHexDigit(d[i + 1])

RECURSIVE DigitValues(_)
DigitValues(d) ==
    IF d = <<>> THEN <<>>
    ELSE IF Head(d) = 95 THEN DigitValues(Tail(d))
    ELSE <<HexVal(Head(d))>> \o DigitValues(Tail(d))

\* int(s, 16): surrounding whitespace, a sign, a 0x prefix and underscores are
\* accepted; ok = FALSE is ValueError.
ParsedInt(mag, neg) == [ok |-> TRUE, neg |-> neg /\ mag # <<>>, mag |-> mag]

ValueError == [ok |-> FALSE, neg |-> FALSE, mag |-> <<>>]

ParseDigits(w, neg) ==
    IF ValidDigits(w) THEN ParsedInt(StripZeros(DigitValues(w)), neg) ELSE ValueError

\* The digits after a 0x prefix may start with one underscore.
SkipUnderscore(v) == IF v # <<>> /\ Head(v) = 95 THEN Tail(v) ELSE v

ParseUnsigned(u, neg) ==
    IF Len(u) >= 2 /\ u[1] = 48 /\ u[2] \in {120, 88}
    THEN ParseDigits(SkipUnderscore(SubSeq(u, 3, Len(u))), neg)
    ELSE ParseDigits(u, neg)

ParseSigned(t) ==
    IF t # <<>> /\ Head(t) \in {43, 45}
    THEN ParseUnsigned(Tail(t), Head(t) = 45)
    ELSE ParseUnsigned(t, FALSE)

ParseInt16(s) == ParseSigned(Strip(s))

\* A small Nat as an integer, and back.
RECURSIVE NatToInt(_)
NatToInt(n) == IF n = 0 THEN <<>> ELSE Append(NatToInt(n \div 16), n % 16)

RECURSIVE IntToNat(_)
IntToNat(x) == IF x = <<>> THEN 0 ELSE 16 * IntToNat(SubSeq(x, 1, Len(x) - 1)) + x[Len(x)]

(***************************************************************************)
(* UTF-8: str.encode('utf-8') and bytes.decode('utf-8').                   *)
(***************************************************************************)
EncodeChar(c) ==
    IF c < 128 THEN <<c>>
    ELSE IF c < 2048 THEN <<192 + (c \div 64), 128 + (c % 64)>>
    ELSE IF c < 65536
         THEN <<224 + (c \div 4096), 128 + ((c \div 64) % 64), 128 + (c % 64)>>
    ELSE <<240 + (c \div 262144), 128 + ((c \div 4096) % 64),
           128 + ((c \div 64) % 64), 128 + (c % 64)>>

\* s.encode('utf-8')
EncodeUtf8(s) == Concat([i \in 1..Len(s) |-> EncodeChar(s[i])])

\* The length of the sequence a lead byte announces; 0 for a byte that leads none.
Utf8SeqLen(b) ==
    IF b < 128 THEN 1
    ELSE IF b >= 194 /\ b <= 223 THEN 2
    ELSE IF b >= 224 /\ b <= 239 THEN 3
    ELSE IF b >= 240 /\ b <= 244 THEN 4
    ELSE 0

\* Whether byte k (k >= 2) of the sequence that starts bs continues it.
Utf8Continues(bs, k) ==
    /\ k <= Len(bs)
    /\ LET lo == IF k = 2 /\ bs[1] = 224 THEN 160
                 ELSE IF k = 2 /\ bs[1] = 240 THEN 144 ELSE 128
           hi == IF k = 2 /\ bs[1] = 237 THEN 159
                 ELSE IF k = 2 /\ bs[1] = 244 THEN 143 ELSE 191
       IN  bs[k] >= lo /\ bs[k] <= hi

\* The code point of the n-byte sequence at the head of bs.
Utf8CodePoint(bs, n) ==
    IF n = 1 THEN bs[1]
    ELSE IF n = 2 THEN (bs[1] - 192) * 64 + (bs[2] - 128)
    ELSE IF n = 3 THEN (bs[1] - 224) * 4096 + (bs[2] - 128) * 64 + (bs[3] - 128)
    ELSE (bs[1] - 240) * 262144 + (bs[2] - 128) * 4096 + (bs[3] - 128) * 64 + (bs[4] - 128)

\* The number of bytes at the head of bs, at most n, that form a well-formed
\* start of a sequence (at least 1: the byte in error).
Utf8GoodLength(bs, n) ==
    IF n = 0 THEN 1
    ELSE CHOOSE k \in 1..n :
            /\ \A j \in 2..k : Utf8Continues(bs, j)
            /\ k = n \/ ~Utf8Continues(bs, k + 1)

Utf8Decoded(bs, n, m) ==
    IF n > 0 /\ m = n THEN [ok |-> TRUE, used |-> n, cp |-> Utf8CodePoint(bs, n)]
    ELSE [ok |-> FALSE, used |-> m, cp |-> 65533]

Utf8Step(bs, n) == Utf8Decoded(bs, n, Utf8GoodLength(bs, n))

\* One decoding step at the head of a non-empty bs: the code point and the bytes
\* used, or ok = FALSE and the length of the malformed run.
DecodeStep(bs) == Utf8Step(bs, Utf8SeqLen(bs[1]))

\* bs.decode('utf-8', 'replace'): every malformed run becomes U+FFFD.
RECURSIVE DecodeUtf8Replace(_)
DecodeUtf8Replace(bs) ==
    IF bs = <<>> THEN <<>>
    ELSE <<DecodeStep(bs).cp>>
            \o DecodeUtf8Replace(SubSeq(bs, DecodeStep(bs).used + 1, Len(bs)))

\* Whether bs.decode('utf-8') succeeds (it raises UnicodeDecodeError otherwise).
RECURSIVE ValidUtf8(_)
ValidUtf8(bs) ==
    \/ bs = <<>>
    \/ DecodeStep(bs).ok /\ ValidUtf8(SubSeq(bs, DecodeStep(bs).used + 1, Len(bs)))

(***************************************************************************)
(* urllib.parse.quote and urllib.parse.unquote.                            *)
(***************************************************************************)
\* A faulty variant of the safe bytes: '%' is left as it is too.
QuoteSafe_Percent(b) ==
    \/ (b >= 48 /\ b <= 57) \/ (b >= 65 /\ b <= 90) \/ (b >= 97 /\ b <= 122)
    \/ b \in {95, 46, 45, 126, 47, 37}

\* The bytes quote() leaves as they are: letters, digits, '_.-~' and the safe '/'.
QuoteSafe(b) ==
    \/ (b >= 48 /\ b <= 57) \/ (b >= 65 /\ b <= 90) \/ (b >= 97 /\ b <= 122)
    \/ b \in {95, 46, 45, 126, 47}

QuoteByte(b) ==
    IF QuoteSafe(b) THEN <<b>>
    ELSE <<37, HexCharUpper(b \div 16), HexCharUpper(b % 16)>>

\* urllib.parse.quote(s)
Quote(s) == LET bs == EncodeUtf8(s) IN Concat([i \in 1..Len(bs) |-> QuoteByte(bs[i])])

\* unquote_to_bytes on an ASCII run: %XX with two hex digits is a byte, every
\* other character is itself.
RECURSIVE UnquoteToBytes(_)
UnquoteToBytes(s) ==
    IF s = <<>> THEN <<>>
    ELSE IF s[1] = 37 /\ Len(s) >= 3 /\ IsHexDigit(s[2]) /\ IsHexDigit(s[3])
         THEN <<16 * HexVal(s[2]) + HexVal(s[3])>> \o UnquoteToBytes(SubSeq(s, 4, Len(s)))
    ELSE <<s[1]>> \o UnquoteToBytes(Tail(s))

\* The length of the longest ASCII (or, with ascii = FALSE, non-ASCII) prefix.
RECURSIVE RunLength(_, _)
RunLength(s, ascii) ==
    IF s # <<>> /\ ((s[1] < 128) = ascii) THEN 1 + RunLength(Tail(s), ascii) ELSE 0

\* An ASCII run of n characters is unquoted and decoded, a non-ASCII run kept.
RECURSIVE UnquoteRuns(_)
UnquoteRun(s, n, ascii) ==
    (IF ascii THEN DecodeUtf8Replace(UnquoteToBytes(SubSeq(s, 1, n))) ELSE SubSeq(s, 1, n))
        \o UnquoteRuns(SubSeq(s, n + 1, Len(s)))

UnquoteRuns(s) ==
    IF s = <<>> THEN <<>> ELSE UnquoteRun(s, RunLength(s, s[1] < 128), s[1] < 128)

\* urllib.parse.unquote(s)
Unquote(s) == IF \A i \in 1..Len(s) : s[i] # 37 THEN s ELSE UnquoteRuns(s)

(***************************************************************************)
(* struct.pack and struct.unpack, big-endian.                              *)
(***************************************************************************)
\* The n bytes of an unsigned integer; ok = FALSE is struct.error (out of range).
PackUInt(x, n) ==
    IF Len(x) > 2 * n THEN [ok |-> FALSE, bytes |-> <<>>]
    ELSE LET d == [i \in 1..(2 * n - Len(x)) |-> 0] \o x
         IN  [ok |-> TRUE, bytes |-> [i \in 1..n |-> 16 * d[2 * i - 1] + d[2 * i]]]

\* The unsigned integer of struct.unpack('>Q', bs) and the like.
UnpackUInt(bs) ==
    StripZeros(Concat([i \in 1..Len(bs) |-> <<bs[i] \div 16, bs[i] % 16>>]))

\* struct.unpack('>i', bs)[0] for four bytes: two's complement.
UnpackInt32(bs) ==
    (IF bs[1] >= 128 THEN bs[1] - 256 ELSE bs[1]) * 16777216
        + bs[2] * 65536 + bs[3] * 256 + bs[4]

(***************************************************************************)
(* Results of a call, and Python truthiness.                               *)
(***************************************************************************)
Return(v) == [kind |-> "return", value |-> v, exc |-> "", msg |-> ""]

Raise(e, m) == [kind |-> "raise", value |-> None, exc |-> e, msg |-> m]

NoResult == [kind |-> "none", value |-> None, exc |-> "", msg |-> ""]

\* bool(o) of an optional int, str or dict: None, 0, '' and {} are false.
Truthy(o) == o # None /\ o[1] # <<>>

\* `o or 0` of an optional int.
OrZero(o) == IF Truthy(o) THEN o[1] ELSE <<>>

SAMPLED_FLAG == 1

DEBUG_FLAG == 2

\* A faulty variant of the flag test: 'flags & (bit == bit)', which tests
\* the lowest bit whatever the mask.
HasFlag_LowestBit(flags, bit) == flags % 2 = 1

\* flags & bit == bit, for a one-bit mask.
HasFlag(flags, bit) == (flags \div bit) % 2 = 1

\* flags | bit, for a one-bit mask.
SetFlag(flags, bit) == IF HasFlag(flags, bit) THEN flags ELSE flags + bit

(***************************************************************************)
(* span_context_to_string and span_context_from_string.                    *)
(***************************************************************************)
Colon == <<58>>

\* '{:x}:{:x}:{:x}:{:x}'.format(trace_id, span_id, parent_id or 0, flags)
span_context_to_string(trace_id, span_id, parent_id, flags) ==
    FormatHex(trace_id) \o Colon \o FormatHex(span_id) \o Colon
        \o FormatHex(OrZero(parent_id)) \o Colon \o FormatHex(NatToInt(flags))

\* int(parts[i], 16) < 1 and int(parts[i], 16) < 0.
BelowOne(p) == p.neg \/ p.mag = <<>>

MalformedTraceContext == Raise("SpanContextCorruptedException", "malformed trace context")

\* A faulty variant of the checks: a parent id of 0 is kept as 0.
FromFields_KeepZeroParent(f) ==
    IF \E i \in 1..4 : ~f[i].ok THEN MalformedTraceContext
    ELSE IF BelowOne(f[1]) \/ BelowOne(f[2]) \/ f[3].neg \/ f[4].neg
         THEN MalformedTraceContext
    ELSE Return(<<Some(f[1].mag), Some(f[2].mag), Some(f[3].mag),
                  Some(IntToNat(f[4].mag))>>)

\* The checks of span_context_from_string on the four parsed fields.
FromFields(f) ==
    IF \E i \in 1..4 : ~f[i].ok THEN MalformedTraceContext
    ELSE IF BelowOne(f[1]) \/ BelowOne(f[2]) \/ f[3].neg \/ f[4].neg
         THEN MalformedTraceContext
    ELSE Return(<<Some(f[1].mag), Some(f[2].mag),
                  IF f[3].mag = <<>> THEN None ELSE Some(f[3].mag),
                  Some(IntToNat(f[4].mag))>>)

FromParts(parts) ==
    IF Len(parts) # 4 THEN MalformedTraceContext
    ELSE FromFields([i \in 1..4 |-> ParseInt16(parts[i])])

\* The value is a str (a header presented as a list is not modelled).  Returns
\* the tuple <<trace_id, span_id, parent_id, flags>> or raises.
span_context_from_string(value) == FromParts(Split(value, 58))

(***************************************************************************)
(* TextCodec.                                                              *)
(***************************************************************************)
TextCodec_init(url_encoding, trace_id_header, baggage_header_prefix, debug_id_header, baggage_header) ==
    [kind            |-> "text",
     url_encoding    |-> url_encoding,
     trace_id_header |-> ReplaceUnderscore(Lower(trace_id_header)),
     baggage_prefix  |-> ReplaceUnderscore(Lower(baggage_header_prefix)),
     debug_id_header |-> ReplaceUnderscore(Lower(debug_id_header)),
     baggage_header  |-> baggage_header,
     prefix_length   |-> Len(baggage_header_prefix),
     generate_128bit_trace_id |-> FALSE]

\* The loop of inject over baggage.items().
RECURSIVE TextCodec_inject_baggage(_, _, _)
TextCodec_inject_baggage(self, items, d) ==
    IF items = <<>> THEN d
    ELSE LET key           == Head(items)[1]
             value         == Head(items)[2]
             encoded_value == IF self.url_encoding THEN Quote(value) ELSE value
             header_key    == self.baggage_prefix \o key
         IN  TextCodec_inject_baggage(self, Tail(items),
                                      DictSet(d, header_key, encoded_value))

\* Returns the exception raised ("" for none) and the carrier afterwards.
TextCodec_inject(self, span_context, c) ==
    IF c.shape # "dict"
    THEN [exc |-> "InvalidCarrierException", carrier |-> c]
    ELSE LET d1 == DictSet(c.items, self.trace_id_header,
                       span_context_to_string(span_context.trace_id[1],
                                              span_context.span_id[1],
                                              span_context.parent_id,
                                              span_context.flags[1]))
             d2 == IF Truthy(span_context.baggage)
                   THEN TextCodec_inject_baggage(self, span_context.baggage[1], d1)
                   ELSE d1
         IN  [exc |-> "", carrier |-> [shape |-> "dict", items |-> d2]]

\* A faulty variant of the loop body: a part with more than one '=' is taken
\* for a pair too.
TextCodec_parse_part_AtLeastTwo(kv, bag) ==
    IF Len(kv) >= 2
    THEN Some(DictSet(IF Truthy(bag) THEN bag[1] ELSE <<>>, kv[1], kv[2]))
    ELSE bag

\* The body of the loop of _parse_baggage_header: kv = part.strip().split('=').
TextCodec_parse_part(kv, bag) ==
    IF Len(kv) = 2
    THEN Some(DictSet(IF Truthy(bag) THEN bag[1] ELSE <<>>, kv[1], kv[2]))
    ELSE bag

\* The loop of _parse_baggage_header over header.split(',').
RECURSIVE TextCodec_parse_parts(_, _)
TextCodec_parse_parts(parts, bag) ==
    IF parts = <<>> THEN bag
    ELSE TextCodec_parse_parts(Tail(parts),
             TextCodec_parse_part(Split(Strip(Head(parts)), 61), bag))

\* TextCodec._parse_baggage_header(header, baggage); baggage is None or a dict.
TextCodec_parse_baggage_header(hdr, bag) == TextCodec_parse_parts(Split(hdr, 44), bag)

\* The locals of extract before the loop.
TextExtractStart ==
    [exc |-> "", trace_id |-> None, span_id |-> None, parent_id |-> None,
     flags |-> None, baggage |-> None, debug_id |-> None]

\* The assignment of the tuple span_context_from_string returns, or its raise.
TextCodec_extract_trace(st, r) ==
    IF r.kind = "raise" THEN [st EXCEPT !.exc = r.exc]
    ELSE [st EXCEPT !.trace_id = r.value[1], !.span_id = r.value[2],
                    !.parent_id = r.value[3], !.flags = r.value[4]]

\* One iteration of the loop of extract, value being the header's value,
\* unquoted under url_encoding.
TextCodec_extract_entry(self, st, key, uc_key, value) ==
    IF uc_key = self.trace_id_header
    THEN TextCodec_extract_trace(st, span_context_from_string(value))
    ELSE IF StartsWith(uc_key, self.baggage_prefix)
    THEN [st EXCEPT !.baggage =
             Some(DictSet(IF st.baggage = None THEN <<>> ELSE st.baggage[1],
                          Lower(PyFrom(key, self.prefix_length)), value))]
    ELSE IF uc_key = self.debug_id_header
    THEN [st EXCEPT !.debug_id = Some(value)]
    ELSE IF uc_key = self.baggage_header
    THEN [st EXCEPT !.baggage = TextCodec_parse_baggage_header(value, st.baggage)]
    ELSE st

TextCodec_extract_item(self, st, key, val) ==
    TextCodec_extract_entry(self, st, key, Lower(key),
                            IF self.url_encoding THEN Unquote(val) ELSE val)

RECURSIVE TextCodec_extract_loop(_, _, _)
TextCodec_extract_loop(self, items, st) ==
    IF items = <<>> \/ st.exc # "" THEN st
    ELSE TextCodec_extract_loop(self, Tail(items),
             TextCodec_extract_item(self, st, Head(items)[1], Head(items)[2]))

\* The end of extract, reset being `not trace_id or not span_id`.
TextCodec_extract_return(st, reset) ==
    IF st.exc # "" THEN Raise(st.exc, "malformed trace context")
    ELSE IF reset /\ ~Truthy(st.debug_id) /\ ~Truthy(st.baggage) THEN Return(None)
    ELSE Return(Some(
            [trace_id  |-> IF reset THEN None ELSE st.trace_id,
             span_id   |-> IF reset THEN None ELSE st.span_id,
             parent_id |-> IF reset THEN None ELSE st.parent_id,
             flags     |-> IF reset THEN None ELSE st.flags,
             baggage   |-> st.baggage,
             debug_id  |-> st.debug_id]))

TextCodec_extract_end(st) ==
    TextCodec_extract_return(st, ~Truthy(st.trace_id) \/ ~Truthy(st.span_id))

TextCodec_extract(self, c) ==
    IF c.shape # "dict" THEN Raise("InvalidCarrierException", "carrier not a collection")
    ELSE TextCodec_extract_end(TextCodec_extract_loop(self, c.items, TextExtractStart))

(***************************************************************************)
(* BinaryCodec.                                                            *)
(***************************************************************************)
\* max_int64 = 0xFFFFFFFFFFFFFFFF has this many hexadecimal digits.
Int64Digits == 16

\* The size of the '>QQQQBI' header in bytes.
HeaderSize == 37

\* x > max_int64
ExceedsInt64(x) == Len(x) > Int64Digits

\* x & max_int64
Low64(x) == StripZeros(PySlice(x, 0 - Int64Digits, Len(x)))

\* (x >> 64) & max_int64
High64(x) ==
    IF Len(x) > Int64Digits
    THEN Low64(SubSeq(x, 1, Len(x) - Int64Digits))
    ELSE <<>>

\* A faulty variant of the join: the digits of low follow those of high with
\* no padding to 64 bits.
Join64_NoPad(high, low) == IF high = <<>> THEN low ELSE high \o low

\* (high << 64) | low, for low < 2^64
Join64(high, low) ==
    IF high = <<>> THEN low
    ELSE high \o [i \in 1..(Int64Digits - Len(low)) |-> 0] \o low

\* BinaryCodec._pack_baggage_item(key, value)
BinaryCodec_pack_baggage_item(key, value) ==
    LET k == EncodeUtf8(key)
        v == EncodeUtf8(value)
    IN  PackUInt(NatToInt(Len(k)), 4).bytes \o k \o PackUInt(NatToInt(Len(v)), 4).bytes \o v

\* struct.pack('>QQQQBI', ...) of the six packed words, then the baggage items.
BinaryCodec_inject_pack(c, words, bag) ==
    IF \E i \in 1..Len(words) : ~words[i].ok
    THEN [exc |-> "struct.error", carrier |-> c]
    ELSE [exc |-> "",
          carrier |-> [shape |-> "bytearray",
                       items |-> c.items
                          \o Concat([i \in 1..Len(words) |-> words[i].bytes])
                          \o Concat([i \in 1..Len(bag) |->
                                 BinaryCodec_pack_baggage_item(bag[i][1], bag[i][2])])]]

BinaryCodec_inject_words(span_context, c, high, low) ==
    BinaryCodec_inject_pack(c,
        <<PackUInt(high, 8), PackUInt(low, 8),
          PackUInt(OrZero(span_context.span_id), 8),
          PackUInt(OrZero(span_context.parent_id), 8),
          PackUInt(NatToInt(span_context.flags[1]), 1),
          PackUInt(NatToInt(Len(span_context.baggage[1])), 4)>>,
        span_context.baggage[1])

\* Returns the exception raised ("" for none) and the carrier afterwards.
BinaryCodec_inject(span_context, c) ==
    IF c.shape # "bytearray"
    THEN [exc |-> "InvalidCarrierException", carrier |-> c]
    ELSE IF ExceedsInt64(span_context.trace_id[1])
    THEN BinaryCodec_inject_words(span_context, c, High64(span_context.trace_id[1]),
                                  Low64(span_context.trace_id[1]))
    ELSE BinaryCodec_inject_words(span_context, c, <<>>, span_context.trace_id[1])

KvError(e) == [exc |-> e, value |-> <<>>, bytes_read |-> 0]

\* The end of _read_kv: data_value = data[4:4 + data_len] unpacked as data_len
\* characters (none for a negative data_len) and decoded.
BinaryCodec_read_value(data_len, data_value) ==
    IF Len(data_value) # Max(data_len, 0) THEN KvError("struct.error")
    ELSE IF ~ValidUtf8(data_value) THEN KvError("UnicodeDecodeError")
    ELSE [exc |-> "", value |-> DecodeUtf8Replace(data_value), bytes_read |-> 4 + data_len]

BinaryCodec_read_len(data, data_len) ==
    BinaryCodec_read_value(data_len, PySlice(data, 4, 4 + data_len))

\* BinaryCodec._read_kv(data): the decoded string and bytes_read, or the exception.
BinaryCodec_read_kv(data) ==
    IF Len(PySlice(data, 0, 4)) # 4 THEN KvError("struct.error")
    ELSE BinaryCodec_read_len(data, UnpackInt32(PySlice(data, 0, 4)))

ItemError(e) == [exc |-> e, key |-> <<>>, value |-> <<>>, bytes_read |-> 0]

BinaryCodec_unpack_value(k, v) ==
    IF v.exc # "" THEN ItemError(v.exc)
    ELSE [exc |-> "", key |-> k.value, value |-> v.value,
          bytes_read |-> k.bytes_read + v.bytes_read]

BinaryCodec_unpack_key(data, k) ==
    IF k.exc # "" THEN ItemError(k.exc)
    ELSE BinaryCodec_unpack_value(k, BinaryCodec_read_kv(PyFrom(data, k.bytes_read)))

\* BinaryCodec._unpack_baggage_item(baggage)
BinaryCodec_unpack_baggage_item(data) ==
    BinaryCodec_unpack_key(data, BinaryCodec_read_kv(data))

\* The loop `for _ in range(baggage_count)` of extract.
RECURSIVE BinaryCodec_extract_loop(_, _, _)
BinaryCodec_extract_step(n, baggage_data, bag, item) ==
    IF item.exc # "" THEN [exc |-> item.exc, baggage |-> bag]
    ELSE BinaryCodec_extract_loop(n - 1, PyFrom(baggage_data, item.bytes_read),
                                  DictSet(bag, item.key, item.value))

BinaryCodec_extract_loop(n, baggage_data, bag) ==
    IF n = 0 THEN [exc |-> "", baggage |-> bag]
    ELSE BinaryCodec_extract_step(n, baggage_data, bag,
                                  BinaryCodec_unpack_baggage_item(baggage_data))

\* The end of extract.
BinaryCodec_extract_return(trace_id, span_id, parent_id, flags, loop) ==
    IF loop.exc # "" THEN Raise(loop.exc, "")
    ELSE Return(Some([trace_id  |-> Some(trace_id),
                      span_id   |-> Some(span_id),
                      parent_id |-> Some(parent_id),
                      flags     |-> Some(flags),
                      baggage   |-> Some(loop.baggage),
                      debug_id  |-> None]))

\* extract after the header is unpacked into high_trace_id, low_trace_id, ...
BinaryCodec_extract_header(c, high_trace_id, low_trace_id, span_id, parent_id, flags, baggage_count) ==
    BinaryCodec_extract_return(
        IF high_trace_id # <<>> THEN Join64(high_trace_id, low_trace_id) ELSE low_trace_id,
        span_id, parent_id, flags,
        IF baggage_count # 0
        THEN BinaryCodec_extract_loop(baggage_count, PyFrom(c.items, HeaderSize), <<>>)
        ELSE [exc |-> "", baggage |-> <<>>])

BinaryCodec_extract_unpack(c, head) ==
    IF Len(head) # HeaderSize
    THEN Raise("struct.error", "unpack requires a buffer of 37 bytes")
    ELSE BinaryCodec_extract_header(c,
             UnpackUInt(SubSeq(head, 1, 8)), UnpackUInt(SubSeq(head, 9, 16)),
             UnpackUInt(SubSeq(head, 17, 24)), UnpackUInt(SubSeq(head, 25, 32)),
             head[33], IntToNat(UnpackUInt(SubSeq(head, 34, 37))))

BinaryCodec_extract(c) ==
    IF c.shape # "bytearray" THEN Raise("InvalidCarrierException", "carrier not a bytearray")
    ELSE BinaryCodec_extract_unpack(c, PySlice(c.items, 0, HeaderSize))

(***************************************************************************)
(* ZipkinCodec.  A carrier is a dict or an object with attributes; the     *)
(* value of a field or attribute is None or an integer.                    *)
(***************************************************************************)
F_trace_id == "trace_id"

F_span_id == "span_id"

F_parent_id == "parent_id"

F_traceflags == "traceflags"

ZipkinCodec_inject(span_context, c) ==
    IF c.shape # "dict"
    THEN [exc |-> "InvalidCarrierException", carrier |-> c]
    ELSE [exc |-> "",
          carrier |-> [shape |-> "dict",
                       items |-> DictSet(DictSet(DictSet(DictSet(c.items,
                                     F_trace_id, span_context.trace_id),
                                     F_span_id, span_context.span_id),
                                     F_parent_id, span_context.parent_id),
                                     F_traceflags, span_context.flags)]]

\* carrier.get(name)
CarrierGet(c, name) == IF DictHas(c.items, name) THEN DictGet(c.items, name) ELSE None

ZipkinContext(trace_id, span_id, parent_id, flags) ==
    IF ~Truthy(trace_id) THEN Return(None)
    ELSE Return(Some([trace_id |-> trace_id, span_id |-> span_id,
                      parent_id |-> parent_id, flags |-> flags,
                      baggage |-> None, debug_id |-> None]))

\* A faulty variant of extract: parent_id is looked for before span_id.
ZipkinCodec_extract_ParentFirst(c) ==
    IF c.shape = "dict"
    THEN ZipkinContext(CarrierGet(c, F_trace_id), CarrierGet(c, F_span_id),
                       CarrierGet(c, F_parent_id), CarrierGet(c, F_traceflags))
    ELSE IF ~DictHas(c.items, F_trace_id)
         THEN Raise("InvalidCarrierException", "carrier has no trace_id")
    ELSE IF ~DictHas(c.items, F_parent_id)
         THEN Raise("InvalidCarrierException", "carrier has no parent_id")
    ELSE IF ~DictHas(c.items, F_span_id)
         THEN Raise("InvalidCarrierException", "carrier has no span_id")
    ELSE IF ~DictHas(c.items, F_traceflags)
         THEN Raise("InvalidCarrierException", "carrier has no traceflags")
    ELSE ZipkinContext(DictGet(c.items, F_trace_id), DictGet(c.items, F_span_id),
                       DictGet(c.items, F_parent_id), DictGet(c.items, F_traceflags))

ZipkinCodec_extract(c) ==
    IF c.shape = "dict"
    THEN ZipkinContext(CarrierGet(c, F_trace_id), CarrierGet(c, F_span_id),
                       CarrierGet(c, F_parent_id), CarrierGet(c, F_traceflags))
    ELSE IF ~DictHas(c.items, F_trace_id)
         THEN Raise("InvalidCarrierException", "carrier has no trace_id")
    ELSE IF ~DictHas(c.items, F_span_id)
         THEN Raise("InvalidCarrierException", "carrier has no span_id")
    ELSE IF ~DictHas(c.items, F_parent_id)
         THEN Raise("InvalidCarrierException", "carrier has no parent_id")
    ELSE IF ~DictHas(c.items, F_traceflags)
         THEN Raise("InvalidCarrierException", "carrier has no traceflags")
    ELSE ZipkinContext(DictGet(c.items, F_trace_id), DictGet(c.items, F_span_id),
                       DictGet(c.items, F_parent_id), DictGet(c.items, F_traceflags))

(***************************************************************************)
(* B3Codec.  A header value is None or a str.                              *)
(***************************************************************************)
\* 'X-B3-TraceId'
trace_header == <<88, 45, 66, 51, 45, 84, 114, 97, 99, 101, 73, 100>>

\* 'X-B3-SpanId'
span_header == <<88, 45, 66, 51, 45, 83, 112, 97, 110, 73, 100>>

\* 'X-B3-ParentSpanId'
parent_span_header ==
    <<88, 45, 66, 51, 45, 80, 97, 114, 101, 110, 116, 83, 112, 97, 110, 73, 100>>

\* 'X-B3-Sampled'
sampled_header == <<88, 45, 66, 51, 45, 83, 97, 109, 112, 108, 101, 100>>

\* 'X-B3-Flags'
flags_header == <<88, 45, 66, 51, 45, 70, 108, 97, 103, 115>>

\* '1'
One == <<49>>

B3Codec_init(generate_128bit_trace_id) ==
    [kind            |-> "b3",
     url_encoding    |-> FALSE,
     trace_id_header |-> <<>>,
     baggage_prefix  |-> <<>>,
     debug_id_header |-> <<>>,
     baggage_header  |-> <<>>,
     prefix_length   |-> 0,
     generate_128bit_trace_id |-> generate_128bit_trace_id]

\* int(header, 16) as header_to_hex returns it: a negative value is written
\* as its digits after -1; ok = FALSE is SpanContextCorruptedException.
HexResult(p) == [ok |-> p.ok, value |-> IF p.neg THEN <<-1>> \o p.mag ELSE p.mag]

\* header_to_hex(header) for a str.
header_to_hex(hdr) == HexResult(ParseInt16(hdr))

B3Codec_inject(self, span_context, c) ==
    IF c.shape # "dict"
    THEN [exc |-> "InvalidCarrierException", carrier |-> c]
    ELSE LET width == IF self.generate_128bit_trace_id THEN 32 ELSE 16
             d1 == DictSet(c.items, trace_header,
                           Some(ZFill(FormatHex(span_context.trace_id[1]), width)))
             d2 == DictSet(d1, span_header,
                           Some(ZFill(FormatHex(span_context.span_id[1]), 16)))
             d3 == IF span_context.parent_id # None
                   THEN DictSet(d2, parent_span_header,
                                Some(ZFill(FormatHex(span_context.parent_id[1]), 16)))
                   ELSE d2
             d4 == IF HasFlag(span_context.flags[1], DEBUG_FLAG)
                   THEN DictSet(d3, flags_header, Some(One))
                   ELSE IF HasFlag(span_context.flags[1], SAMPLED_FLAG)
                   THEN DictSet(d3, sampled_header, Some(One))
                   ELSE d3
         IN  [exc |-> "", carrier |-> [shape |-> "dict", items |-> d4]]

\* The locals of extract before the loop.
B3ExtractStart ==
    [exc |-> "", trace_id |-> None, span_id |-> None, parent_id |-> None, flags |-> 0]

\* field = header_to_hex(header_value)
B3Codec_extract_id(st, field, h) ==
    IF ~h.ok THEN [st EXCEPT !.exc = "SpanContextCorruptedException"]
    ELSE [st EXCEPT ![field] = Some(h.value)]

\* One iteration of the loop of extract, for a header value that is not None.
B3Codec_extract_header(st, lower_key, header_value) ==
    IF lower_key = Lower(trace_header)
    THEN B3Codec_extract_id(st, "trace_id", header_to_hex(header_value))
    ELSE IF lower_key = Lower(span_header)
    THEN B3Codec_extract_id(st, "span_id", header_to_hex(header_value))
    ELSE IF lower_key = Lower(parent_span_header)
    THEN B3Codec_extract_id(st, "parent_id", header_to_hex(header_value))
    ELSE IF lower_key = Lower(sampled_header) /\ header_value = One
    THEN [st EXCEPT !.flags = SetFlag(st.flags, SAMPLED_FLAG)]
    ELSE IF lower_key = Lower(flags_header) /\ header_value = One
    THEN [st EXCEPT !.flags = SetFlag(st.flags, DEBUG_FLAG)]
    ELSE st

\* One iteration of the loop of extract.
B3Codec_extract_item(st, header_key, header_value) ==
    IF header_value = None THEN st
    ELSE B3Codec_extract_header(st, Lower(header_key), header_value[1])

RECURSIVE B3Codec_extract_loop(_, _)
B3Codec_extract_loop(items, st) ==
    IF items = <<>> \/ st.exc # "" THEN st
    ELSE B3Codec_extract_loop(Tail(items),
             B3Codec_extract_item(st, Head(items)[1], Head(items)[2]))

\* The end of extract.
B3Codec_extract_return(st) ==
    IF st.exc # "" THEN Raise(st.exc, "malformed trace context")
    ELSE IF ~Truthy(st.trace_id) \/ ~Truthy(st.span_id) THEN Return(None)
    ELSE Return(Some([trace_id |-> st.trace_id, span_id |-> st.span_id,
                      parent_id |-> st.parent_id, flags |-> Some(st.flags),
                      baggage |-> None, debug_id |-> None]))

B3Codec_extract(c) ==
    IF c.shape # "dict" THEN Raise("InvalidCarrierException", "carrier not a dictionary")
    ELSE B3Codec_extract_return(B3Codec_extract_loop(c.items, B3ExtractStart))

BinaryCodec_init ==
    [kind |-> "binary", url_encoding |-> FALSE, trace_id_header |-> <<>>,
     baggage_prefix |-> <<>>, debug_id_header |-> <<>>, baggage_header |-> <<>>,
     prefix_length |-> 0, generate_128bit_trace_id |-> FALSE]

ZipkinCodec_init ==
    [kind |-> "zipkin", url_encoding |-> FALSE, trace_id_header |-> <<>>,
     baggage_prefix |-> <<>>, debug_id_header |-> <<>>, baggage_header |-> <<>>,
     prefix_length |-> 0, generate_128bit_trace_id |-> FALSE]

(***************************************************************************)
(* The inputs: bounded sets of contexts, configurations and carriers.      *)
(***************************************************************************)
\* The most baggage entries of a context.
MaxBaggage == 2

\* Flags run over 0..MaxFlag and 255.
MaxFlag == 3

\* The most entries of a received text carrier.
MaxEntries == 2

\* The most comma-separated parts of an aggregated baggage header.
MaxParts == 2

\* Sequences over S of length at most n.
RECURSIVE SeqsUpTo(_, _)
SeqsUpTo(S, n) ==
    IF n = 0 THEN {<<>>}
    ELSE LET prev == SeqsUpTo(S, n - 1)
         IN  prev \cup {Append(q, x) : q \in {r \in prev : Len(r) = n - 1}, x \in S}

\* dicts: sequences of pairs whose keys are distinct.
IsDict(d) == \A i, j \in 1..Len(d) : d[i][1] = d[j][1] => i = j

Repeat(x, n) == [i \in 1..n |-> x]

\* 2^64 - 1, 2^64, 2^64 + 0xab, and 0x0102030405060708090A0B0C0D0E0F10
MaxInt64 == Repeat(15, 16)

TwoTo64 == <<1>> \o Repeat(0, 16)

TwoTo64PlusAB == <<1>> \o Repeat(0, 14) \o <<10, 11>>

TraceId128 ==
    <<1, 0, 2, 0, 3, 0, 4, 0, 5, 0, 6, 0, 7, 0, 8,
      0, 9, 0, 10, 0, 11, 0, 12, 0, 13, 0, 14, 0, 15, 1, 0>>

TraceIds == {<<1>>, <<10, 11, 12>>, MaxInt64, TwoTo64, TwoTo64PlusAB, TraceId128}

SpanIds == {<<1>>, <<1, 0>>, MaxInt64}

ParentIds == {None, Some(<<1>>), Some(MaxInt64)}

FlagValues == (0..MaxFlag) \cup {255}

\* 'k', 'K', 'Ké'
BaggageKeys == {<<107>>, <<75>>, <<75, 233>>}

\* 'v', 'a =', 'é%', 'x%41'
BaggageValues == {<<118>>, <<97, 32, 61>>, <<233, 37>>, <<120, 37, 52, 49>>}

Baggages ==
    {d \in SeqsUpTo(BaggageKeys \X BaggageValues, MaxBaggage) : IsDict(d)}

Context(t, s, p, f, b) ==
    [trace_id |-> Some(t), span_id |-> Some(s), parent_id |-> p, flags |-> Some(f),
     baggage |-> Some(b), debug_id |-> None]

\* The valid contexts: every id and flag with one baggage, every baggage with one id.
ValidContexts ==
    {Context(t, s, p, f, <<>>) : t \in TraceIds, s \in SpanIds, p \in ParentIds,
                                 f \in FlagValues}
    \cup {Context(TraceId128, <<1>>, None, 1, b) : b \in Baggages}

NoContext ==
    [trace_id |-> None, span_id |-> None, parent_id |-> None, flags |-> None,
     baggage |-> None, debug_id |-> None]

\* str.upper() of ASCII letters, to write the keys of received carriers.
Upper(s) == [i \in 1..Len(s) |-> IF s[i] >= 97 /\ s[i] <= 122 THEN s[i] - 32 ELSE s[i]]

\* The constructor arguments of TextCodec after url_encoding: the trace header,
\* the baggage prefix, the debug-id header, the aggregated baggage header.
\* ('t-id', 'b-', 'd-id', 'j-b') and ('T_Id', 'B_', 'D_Id', 'J_B')
TextNames ==
    {<<<<116, 45, 105, 100>>, <<98, 45>>, <<100, 45, 105, 100>>, <<106, 45, 98>>>>,
     <<<<84, 95, 73, 100>>, <<66, 95>>, <<68, 95, 73, 100>>, <<74, 95, 66>>>>}

TextConfigs == {<<u>> \o n : u \in BOOLEAN, n \in TextNames}

\* The ways a received key spells a configured name: as configured, lower-case
\* with hyphens, upper-case with hyphens.
Spellings(name) ==
    {name, ReplaceUnderscore(Lower(name)), ReplaceUnderscore(Upper(name))}

\* '1:1:0:1', 'ff:A:1:3', 'nothex:1:0:1', '1:1:0', '0:1:0:1', '1:0:0:1', '-1:1:0:1'
GoodTraceValues == {<<49, 58, 49, 58, 48, 58, 49>>, <<102, 102, 58, 65, 58, 49, 58, 51>>}

BadTraceValues ==
    {<<110, 111, 116, 104, 101, 120, 58, 49, 58, 48, 58, 49>>,
     <<49, 58, 49, 58, 48>>,
     <<48, 58, 49, 58, 48, 58, 49>>,
     <<49, 58, 48, 58, 48, 58, 49>>,
     <<45, 49, 58, 49, 58, 48, 58, 49>>}

\* 'a=1,b=2,malformed,c=3'
ExampleHeader ==
    <<97, 61, 49, 44, 98, 61, 50, 44, 109, 97, 108, 102, 111, 114, 109, 101, 100,
      44, 99, 61, 51>>

\* The entries a received text carrier is made of, for the names of a config.
TextEntries(cfg) ==
    {<<k, v>> : k \in Spellings(cfg[2]), v \in GoodTraceValues \cup BadTraceValues}
    \cup {<<k \o <<75, 101>>, <<118>>>> : k \in Spellings(cfg[3])}
    \cup {<<k, <<100>>>> : k \in Spellings(cfg[4])}
    \cup {<<k, ExampleHeader>> : k \in Spellings(cfg[5])}

ReceivedTextCarriers(cfg) ==
    {[shape |-> "dict", items |-> d] :
        d \in {e \in SeqsUpTo(TextEntries(cfg), MaxEntries) : IsDict(e)}}

EmptyDict == [shape |-> "dict", items |-> <<>>]

EmptyBuffer == [shape |-> "bytearray", items |-> <<>>]

\* The buffers BinaryCodec.inject writes for two contexts, whole and damaged:
\* cut short at every length, and with a length or the count overwritten.
SampleBuffers ==
    {BinaryCodec_inject(c, EmptyBuffer).carrier.items :
        c \in {Context(<<1>>, <<1>>, None, 1, <<>>),
               Context(<<1>>, <<2>>, None, 1, <<<<<<107>>, <<118>>>>>>),
               Context(TraceId128, <<1>>, Some(<<1>>), 3,
                       <<<<<<75, 233>>, <<118>>>>, <<<<107>>, <<233, 37>>>>>>)}}

\* buf with the four bytes after offset off replaced by word.
Overwrite(buf, off, word) ==
    [i \in 1..Len(buf) |-> IF i > off /\ i <= off + 4 THEN word[i - off] ELSE buf[i]]

\* -1, -5, 255, 1 and 3 as four big-endian bytes: the lengths written over a
\* record's length.
Words ==
    {<<255, 255, 255, 255>>, <<255, 255, 255, 251>>, <<0, 0, 0, 255>>,
     <<0, 0, 0, 1>>, <<0, 0, 0, 3>>}

\* 0, 1, 3 and 255: the counts written over baggage_count.
Counts == {<<0, 0, 0, 0>>, <<0, 0, 0, 1>>, <<0, 0, 0, 3>>, <<0, 0, 0, 255>>}

ReceivedBuffers ==
    {[shape |-> "bytearray", items |-> b] :
        b \in SampleBuffers
              \cup UNION {{SubSeq(s, 1, n) : n \in 0..(Len(s) - 1)} : s \in SampleBuffers}
              \cup {Overwrite(s, off, w) : s \in SampleBuffers, off \in {37, 42}, w \in Words}
              \cup {Overwrite(s, 33, w) : s \in SampleBuffers, w \in Counts}}

\* A field or attribute of a Zipkin carrier: missing, or present with a value.
Field(name, f) == IF f = <<>> THEN <<>> ELSE <<<<name, f[1]>>>>

Missing == <<>>

ZipkinCarriers ==
    {[shape |-> sh,
      items |-> Field(F_trace_id, t) \o Field(F_span_id, s)
                   \o Field(F_parent_id, p) \o Field(F_traceflags, f)] :
        sh \in {"dict", "object"},
        t \in {Missing, Some(None), Some(Some(<<>>)), Some(Some(<<1>>))},
        s \in {Missing, Some(None), Some(Some(<<1>>))},
        p \in {Missing, Some(None), Some(Some(<<1>>))},
        f \in {Missing, Some(Some(1))}}

\* Received B3 carriers: lower-case names, a None value, a value that is no number.
ReceivedB3Carriers ==
    {[shape |-> "dict",
      items |-> <<<<Lower(trace_header), t>>, <<Upper(span_header), Some(<<49, 48>>)>>>> \o x] :
        t \in {None, Some(<<48>>), Some(<<65, 98>>), Some(<<122>>)},
        x \in {<<>>, <<<<Lower(sampled_header), Some(One)>>, <<flags_header, Some(One)>>>>,
               <<<<sampled_header, Some(<<48>>)>>>>}}

\* 'a=1', 'b=2', 'malformed', 'c=3', 'a=b=c', ' d=4 ', '=', '', 'a=9', 'a = 1'
Parts ==
    {<<97, 61, 49>>, <<98, 61, 50>>, <<109, 97, 108, 102, 111, 114, 109, 101, 100>>,
     <<99, 61, 51>>, <<97, 61, 98, 61, 99>>, <<32, 100, 61, 52, 32>>, <<61>>, <<>>,
     <<97, 61, 57>>, <<97, 32, 61, 32, 49>>}

\* ','.join(parts)
RECURSIVE Join(_)
Join(parts) ==
    IF Len(parts) = 0 THEN <<>>
    ELSE IF Len(parts) = 1 THEN parts[1]
    ELSE parts[1] \o <<44>> \o Join(Tail(parts))

ParseHeaders == {Join(ps) : ps \in SeqsUpTo(Parts, MaxParts)} \cup {ExampleHeader}

\* None, {}, {'a': '0'}, {'z': '0', 'b': '0'}
ParseBaggages ==
    {None, Some(<<>>), Some(<<<<<<97>>, <<48>>>>>>),
     Some(<<<<<<122>>, <<48>>>>, <<<<98>>, <<48>>>>>>)}

TextConfig(cfg) == [kind |-> "text", args |-> cfg]

Configs ==
    {TextConfig(cfg) : cfg \in TextConfigs}
    \cup {[kind |-> "b3", args |-> <<g>>] : g \in BOOLEAN}
    \cup {[kind |-> "binary", args |-> <<>>], [kind |-> "zipkin", args |-> <<>>]}

\* The codec a configuration constructs.
Construct(cfg) ==
    CASE cfg.kind = "text" ->
            TextCodec_init(cfg.args[1], cfg.args[2], cfg.args[3], cfg.args[4], cfg.args[5])
      [] cfg.kind = "b3" -> B3Codec_init(cfg.args[1])
      [] cfg.kind = "binary" -> BinaryCodec_init
      [] cfg.kind = "zipkin" -> ZipkinCodec_init

\* The carriers a codec of this configuration may receive from the wire.
Received(cfg) ==
    CASE cfg.kind = "text" -> ReceivedTextCarriers(cfg.args)
      [] cfg.kind = "b3" -> ReceivedB3Carriers
      [] cfg.kind = "binary" -> ReceivedBuffers
      [] cfg.kind = "zipkin" -> ZipkinCarriers

(***************************************************************************)
(* The state machine: a codec is constructed; then either a context is     *)
(* injected into an empty carrier and that carrier extracted, or a carrier *)
(* received from the wire is extracted, or the baggage header parser runs. *)
(***************************************************************************)
Init ==
    /\ config \in Configs
    /\ codec = Construct(config)
    /\ result = NoResult
    /\ \/ /\ pc = "start"
          /\ ctx \in ValidContexts
          /\ carrier = IF config.kind = "binary" THEN EmptyBuffer ELSE EmptyDict
          /\ header = <<>>
          /\ baggage = None
       \/ /\ pc = "received"
          /\ ctx = NoContext
          /\ carrier \in Received(config)
          /\ header = <<>>
          /\ baggage = None
       \/ /\ pc = "parse"
          /\ config = TextConfig(<<FALSE, <<116, 45, 105, 100>>, <<98, 45>>,
                                   <<100, 45, 105, 100>>, <<106, 45, 98>>>>)
          /\ ctx = NoContext
          /\ carrier = EmptyDict
          /\ header \in ParseHeaders
          /\ baggage \in ParseBaggages

\* What inject leaves: the carrier, and None returned or the exception raised.
Injected(r) ==
    /\ carrier' = r.carrier
    /\ result' = IF r.exc = "" THEN Return(None) ELSE Raise(r.exc, "")
    /\ pc' = IF r.exc = "" THEN "injected" ELSE "raised"
    /\ UNCHANGED <<config, codec, ctx, header, baggage>>

\* What extract leaves: its result.
Extracted(r) ==
    /\ result' = r
    /\ pc' = IF pc = "injected" THEN "roundtrip" ELSE "extracted"
    /\ UNCHANGED <<config, codec, ctx, carrier, header, baggage>>

TextInject ==
    /\ pc = "start" /\ codec.kind = "text"
    /\ Injected(TextCodec_inject(codec, ctx, carrier))

TextExtract ==
    /\ pc \in {"injected", "received"} /\ codec.kind = "text"
    /\ Extracted(TextCodec_extract(codec, carrier))

ParseBaggageHeader ==
    /\ pc = "parse" /\ codec.kind = "text"
    /\ result' = Return(TextCodec_parse_baggage_header(header, baggage))
    /\ pc' = "parsed"
    /\ UNCHANGED <<config, codec, ctx, carrier, header, baggage>>

BinaryInject ==
    /\ pc = "start" /\ codec.kind = "binary"
    /\ Injected(BinaryCodec_inject(ctx, carrier))

BinaryExtract ==
    /\ pc \in {"injected", "received"} /\ codec.kind = "binary"
    /\ Extracted(BinaryCodec_extract(carrier))

ZipkinInject ==
    /\ pc = "start" /\ codec.kind = "zipkin"
    /\ Injected(ZipkinCodec_inject(ctx, carrier))

ZipkinExtract ==
    /\ pc \in {"injected", "received"} /\ codec.kind = "zipkin"
    /\ Extracted(ZipkinCodec_extract(carrier))

B3Inject ==
    /\ pc = "start" /\ codec.kind = "b3"
    /\ Injected(B3Codec_inject(codec, ctx, carrier))

B3Extract ==
    /\ pc \in {"injected", "received"} /\ codec.kind = "b3"
    /\ Extracted(B3Codec_extract(carrier))

Next ==
    \/ TextInject \/ TextExtract \/ ParseBaggageHeader
    \/ BinaryInject \/ BinaryExtract
    \/ ZipkinInject \/ ZipkinExtract
    \/ B3Inject \/ B3Extract

Spec == Init /\ [][Next]_vars

(***************************************************************************)
(* Properties.  Got is the context extract returned, when it returned one. *)
(***************************************************************************)
ReturnedContext == result.kind = "return" /\ result.value # None

Got == result.value[1]

Raised(e) == result.kind = "raise" /\ result.exc = e

\* The entries of an optional dict: None has none.
Entries(o) == IF o = None THEN <<>> ELSE o[1]

\* A configured header name as a received key is compared with it: lower-case,
\* hyphens in place of underscores.
Normal(name) == ReplaceUnderscore(Lower(name))

\* Carrier entry i is the trace header / a prefixed baggage header.
IsTraceEntry(i) == Lower(carrier.items[i][1]) = Normal(config.args[2])

IsBaggageEntry(i) == StartsWith(Lower(carrier.items[i][1]), Normal(config.args[3]))

\* C1: when a received text carrier holds a trace header whose value does not
\* parse and at least one baggage header, TextCodec.extract raises nothing and
\* returns a context without trace_id, span_id, parent_id and flags whose
\* baggage holds the carrier's baggage entries.
C1_SilentDegrade ==
    (/\ pc = "extracted" /\ codec.kind = "text"
     /\ \E i \in 1..Len(carrier.items) :
            IsTraceEntry(i) /\ carrier.items[i][2] \in BadTraceValues
     /\ \E i \in 1..Len(carrier.items) : IsBaggageEntry(i) /\ ~IsTraceEntry(i))
    => /\ ReturnedContext
       /\ Got.trace_id = None /\ Got.span_id = None
       /\ Got.parent_id = None /\ Got.flags = None
       /\ \A i \in 1..Len(carrier.items) :
             (IsBaggageEntry(i) /\ ~IsTraceEntry(i))
             => DictHas(Entries(Got.baggage),
                        Lower(PyFrom(carrier.items[i][1], Len(config.args[3]))))

\* The parent id an injected carrier holds: the third field of the trace
\* header (text), bytes 25..32 (binary), the 'parent_id' field (zipkin), the
\* X-B3-ParentSpanId header (b3).  <<>> when the carrier holds none.
WireParent ==
    CASE codec.kind = "text" ->
            Some(Split(DictGet(carrier.items, codec.trace_id_header), 58)[3])
      [] codec.kind = "binary" -> Some(SubSeq(carrier.items, 25, 32))
      [] codec.kind = "zipkin" -> Some(DictGet(carrier.items, F_parent_id))
      [] codec.kind = "b3" ->
            IF DictHas(carrier.items, parent_span_header)
            THEN Some(DictGet(carrier.items, parent_span_header))
            ELSE <<>>

\* The value 0 as each format writes a number: '0', eight zero bytes, the
\* integer 0, sixteen zero digits.
WireZero ==
    CASE codec.kind = "text" -> Some(<<48>>)
      [] codec.kind = "binary" -> Some(Repeat(0, 8))
      [] codec.kind = "zipkin" -> Some(Some(<<>>))
      [] codec.kind = "b3" -> Some(Some(Repeat(48, 16)))

AbsentParentRoundTrip == pc = "roundtrip" /\ ctx.parent_id = None

\* C2 as stated: in every format a context without parent_id is injected with
\* the parent id 0 on the wire and extracted with parent_id absent.
C2_ParentZeroEveryFormat ==
    AbsentParentRoundTrip
    => /\ WireParent = WireZero
       /\ ReturnedContext /\ Got.parent_id = None

\* C2 amended: for a context without parent_id, TextCodec and BinaryCodec
\* write 0, ZipkinCodec writes the absent value itself and B3Codec writes no
\* parent header; extract returns parent_id absent for TextCodec, ZipkinCodec
\* and B3Codec, and BinaryCodec.extract hands the integer 0 it read to the
\* context it constructs.
C2_ParentAbsentPerFormat ==
    AbsentParentRoundTrip
    => /\ ReturnedContext
       /\ codec.kind \in {"text", "binary"} => WireParent = WireZero
       /\ codec.kind = "zipkin" => WireParent = Some(None)
       /\ codec.kind = "b3" => WireParent = <<>>
       /\ codec.kind \in {"text", "zipkin", "b3"} => Got.parent_id = None
       /\ codec.kind = "binary" => Got.parent_id = Some(<<>>)

C2_Witness ==
    /\ AbsentParentRoundTrip /\ codec.kind = "binary"
    /\ ReturnedContext /\ Got.parent_id = Some(<<>>)

SameIds ==
    /\ Got.trace_id = ctx.trace_id
    /\ Got.span_id = ctx.span_id
    /\ Got.parent_id = ctx.parent_id

\* The flags of the claim: every combination of the SAMPLED and DEBUG bits.
SampledDebugOnly == ctx.flags[1] \in {0, 1, 2, 3}

\* C3 as stated: B3Codec inject then extract returns the same trace_id,
\* span_id, parent_id and flags for every combination of SAMPLED and DEBUG.
C3_B3RoundTrip ==
    (pc = "roundtrip" /\ codec.kind = "b3" /\ SampledDebugOnly)
    => ReturnedContext /\ SameIds /\ Got.flags = ctx.flags

\* C3 amended: B3Codec inject then extract returns the same trace_id, span_id
\* and parent_id, in either 128-bit mode; the flags come back equal unless
\* both SAMPLED and DEBUG were set, and then only DEBUG comes back.
C3_B3RoundTripDebugWins ==
    (pc = "roundtrip" /\ codec.kind = "b3" /\ SampledDebugOnly)
    => /\ ReturnedContext /\ SameIds
       /\ Got.flags = IF ctx.flags[1] = 3 THEN Some(2) ELSE ctx.flags

C3_Witness ==
    /\ pc = "roundtrip" /\ codec.kind = "b3" /\ ~codec.generate_128bit_trace_id
    /\ ctx.trace_id = Some(TraceId128) /\ ctx.parent_id = Some(MaxInt64)
    /\ ctx.flags = Some(3)
    /\ ReturnedContext /\ Got.flags = Some(2) /\ Got.trace_id = Some(TraceId128)

\* C4 as stated: TextCodec inject then extract returns the same trace_id,
\* span_id, parent_id and flags and a baggage equal to the injected one, key
\* for key and value for value, with or without percent-encoding.
C4_TextRoundTrip ==
    (pc = "roundtrip" /\ codec.kind = "text")
    => /\ ReturnedContext /\ SameIds /\ Got.flags = ctx.flags
       /\ DictEq(Entries(Got.baggage), Entries(ctx.baggage))

\* The last entry of dict d whose key is k in lower case.
LastLower(d, k) ==
    CHOOSE i \in 1..Len(d) :
        /\ Lower(d[i][1]) = k
        /\ \A j \in (i + 1)..Len(d) : Lower(d[j][1]) # k

\* C4 amended: TextCodec inject then extract returns the same trace_id,
\* span_id, parent_id and flags, with or without percent-encoding; the baggage
\* comes back with every key in lower case, each key holding the injected
\* value (that of the last injected key, when keys differ only in case).
C4_TextRoundTripLowerKeys ==
    (pc = "roundtrip" /\ codec.kind = "text")
    => /\ ReturnedContext /\ SameIds /\ Got.flags = ctx.flags
       /\ DictKeys(Entries(Got.baggage))
             = {Lower(k) : k \in DictKeys(Entries(ctx.baggage))}
       /\ \A k \in DictKeys(Entries(Got.baggage)) :
             DictGet(Entries(Got.baggage), k)
                = ctx.baggage[1][LastLower(ctx.baggage[1], k)][2]

\* 'x%41'
PercentValue == <<120, 37, 52, 49>>

C4_Witness ==
    /\ pc = "roundtrip" /\ codec.kind = "text" /\ codec.url_encoding
    /\ ctx.baggage = Some(<<<<<<75, 233>>, PercentValue>>, <<<<107>>, <<233, 37>>>>>>)
    /\ ReturnedContext
    /\ DictGet(Got.baggage[1], <<107, 233>>) = PercentValue

\* The hexadecimal digits of a byte string, two per byte.
Nibbles(bs) ==
    [i \in 1..(2 * Len(bs)) |->
        IF i % 2 = 1 THEN bs[(i + 1) \div 2] \div 16 ELSE bs[i \div 2] % 16]

BinaryInjected ==
    /\ codec.kind = "binary" /\ pc \in {"injected", "roundtrip"}
    /\ carrier.shape = "bytearray"

\* C5: BinaryCodec.inject writes trace_id_high (bytes 1..8) and trace_id_low
\* (bytes 9..16) so that high * 2^64 + low is the trace_id, with high = 0 when
\* the trace_id is at most 2^64 - 1; BinaryCodec.extract of the buffer returns
\* the same trace_id, span_id and flags and a baggage equal to the injected one.
C5_BinaryRoundTrip ==
    /\ BinaryInjected
       => /\ StripZeros(Nibbles(SubSeq(carrier.items, 1, 16))) = ctx.trace_id[1]
          /\ Len(ctx.trace_id[1]) <= 16
                => SubSeq(carrier.items, 1, 8) = Repeat(0, 8)
          /\ Len(ctx.trace_id[1]) > 16
                => StripZeros(Nibbles(SubSeq(carrier.items, 1, 8)))
                      = SubSeq(ctx.trace_id[1], 1, Len(ctx.trace_id[1]) - 16)
    /\ (BinaryInjected /\ pc = "roundtrip")
       => /\ ReturnedContext
          /\ Got.trace_id = ctx.trace_id
          /\ Got.span_id = ctx.span_id
          /\ Got.flags = ctx.flags
          /\ DictEq(Entries(Got.baggage), Entries(ctx.baggage))

C5_Witness ==
    /\ BinaryInjected /\ pc = "roundtrip"
    /\ ctx.trace_id = Some(TraceId128)
    /\ SubSeq(carrier.items, 1, 16) = [i \in 1..16 |-> i]
    /\ ReturnedContext /\ Got.trace_id = Some(TraceId128)
    /\ Len(Entries(ctx.baggage)) = MaxBaggage

\* Whether n length-prefixed strings cannot be read from buffer b after its
\* first off bytes: the bytes end first, or a length is negative or larger than
\* the bytes that remain.
RECURSIVE StringsCorrupt(_, _, _)
StringsCorrupt(b, off, n) ==
    IF n = 0 THEN FALSE
    ELSE IF Len(b) - off < 4 THEN TRUE
    ELSE IF UnpackInt32(SubSeq(b, off + 1, off + 4)) < 0 THEN TRUE
    ELSE IF UnpackInt32(SubSeq(b, off + 1, off + 4)) > Len(b) - off - 4 THEN TRUE
    ELSE StringsCorrupt(b, off + 4 + UnpackInt32(SubSeq(b, off + 1, off + 4)), n - 1)

\* A buffer shorter than the header, or whose baggage_count records (a key
\* and a value each) cannot be read.
CorruptBuffer(b) ==
    \/ Len(b) < HeaderSize
    \/ /\ Len(b) >= HeaderSize
       /\ StringsCorrupt(b, HeaderSize, 2 * IntToNat(UnpackUInt(SubSeq(b, 34, 37))))

\* C6: BinaryCodec.extract of a corrupt buffer raises
\* SpanContextCorruptedException: no other error, no returned context.
C6_CorruptionError ==
    (/\ pc = "extracted" /\ codec.kind = "binary" /\ carrier.shape = "bytearray"
     /\ CorruptBuffer(carrier.items))
    => Raised("SpanContextCorruptedException")

\* The received carrier holds one entry, whose key is the configured name
\* (argument n of the constructor) in lower case with hyphens for underscores.
OneEntryNamed(n) ==
    /\ pc = "extracted" /\ codec.kind = "text"
    /\ Len(carrier.items) = 1
    /\ Lower(carrier.items[1][1]) = Normal(config.args[n])

OneEntryPrefixed ==
    /\ pc = "extracted" /\ codec.kind = "text"
    /\ Len(carrier.items) = 1
    /\ StartsWith(Lower(carrier.items[1][1]), Normal(config.args[3]))

\* {'a': '1', 'b': '2', 'c': '3'}
ExampleBaggage == <<<<<<97>>, <<49>>>>, <<<<98>>, <<50>>>>, <<<<99>>, <<51>>>>>>

\* C7: TextCodec.extract takes a carrier entry for the trace header, the
\* debug-id header, the aggregated baggage header or a prefixed baggage header
\* whenever its key is the configured name in any letter case with hyphens for
\* underscores; the baggage key of a prefixed header is the part of the header
\* name after the prefix (compared without regard to letter case).
C7_HeaderNameMatching ==
    /\ (OneEntryNamed(2) /\ carrier.items[1][2] \in GoodTraceValues)
       => ReturnedContext /\ Got.trace_id # None
    /\ OneEntryNamed(4)
       => ReturnedContext /\ Got.debug_id = Some(carrier.items[1][2])
    /\ (OneEntryNamed(5) /\ carrier.items[1][2] = ExampleHeader)
       => ReturnedContext /\ DictEq(Entries(Got.baggage), ExampleBaggage)
    /\ OneEntryPrefixed
       => /\ ReturnedContext
          /\ {Lower(k) : k \in DictKeys(Entries(Got.baggage))}
                = {Lower(PyFrom(carrier.items[1][1], Len(config.args[3])))}

B3Injected == codec.kind = "b3" /\ pc \in {"injected", "roundtrip"}

HasHeader(name) == DictHas(carrier.items, name)

DebugBit == (ctx.flags[1] \div 2) % 2 = 1

SampledBit == ctx.flags[1] % 2 = 1

\* C8: B3Codec.inject writes at most one of X-B3-Flags and X-B3-Sampled:
\* X-B3-Flags = '1' alone when the DEBUG bit is set, X-B3-Sampled = '1' alone
\* when only the SAMPLED bit is set, neither when neither bit is set.
C8_B3FlagPrecedence ==
    B3Injected
    => /\ ~(HasHeader(flags_header) /\ HasHeader(sampled_header))
       /\ DebugBit
             => /\ HasHeader(flags_header) /\ ~HasHeader(sampled_header)
                /\ DictGet(carrier.items, flags_header) = Some(One)
       /\ (SampledBit /\ ~DebugBit)
             => /\ HasHeader(sampled_header) /\ ~HasHeader(flags_header)
                /\ DictGet(carrier.items, sampled_header) = Some(One)
       /\ (~SampledBit /\ ~DebugBit)
             => ~HasHeader(flags_header) /\ ~HasHeader(sampled_header)

C8_Witness ==
    /\ B3Injected /\ pc = "injected" /\ ctx.flags = Some(3)
    /\ HasHeader(flags_header) /\ ~HasHeader(sampled_header)

\* The position of the last c in s, 0 when s holds none.
LastIndex(s, c) ==
    IF \E i \in 1..Len(s) : s[i] = c
    THEN CHOOSE i \in 1..Len(s) : s[i] = c /\ \A j \in (i + 1)..Len(s) : s[j] # c
    ELSE 0

\* The pieces of s between its commas, from the last comma backwards.
RECURSIVE Pieces(_)
Pieces(s) ==
    IF LastIndex(s, 44) = 0 THEN <<s>>
    ELSE Append(Pieces(SubSeq(s, 1, LastIndex(s, 44) - 1)),
                SubSeq(s, LastIndex(s, 44) + 1, Len(s)))

\* A piece is a pair when it holds exactly one '='.
IsPair(piece) == Cardinality({i \in 1..Len(piece) : piece[i] = 61}) = 1

PairKey(piece) == SubSeq(Strip(piece), 1, LastIndex(Strip(piece), 61) - 1)

PairValue(piece) ==
    SubSeq(Strip(piece), LastIndex(Strip(piece), 61) + 1, Len(Strip(piece)))

\* The pairs among the pieces of the header, by position.
Pairs(hdr) == {i \in 1..Len(Pieces(hdr)) : IsPair(Pieces(hdr)[i])}

PairsWithKey(hdr, k) == {i \in Pairs(hdr) : PairKey(Pieces(hdr)[i]) = k}

\* C9: _parse_baggage_header splits the header on ',' and takes a piece for a
\* pair only when it holds exactly one '='; every other piece is skipped
\* without an error; the pairs are added to the baggage already collected (a
\* later pair replacing an earlier value of its key), so
\* 'a=1,b=2,malformed,c=3' gives exactly {a: 1, b: 2, c: 3}.
C9_ParseBaggageHeader ==
    pc = "parsed"
    => /\ result.kind = "return"
       /\ Pairs(header) = {} => result.value = baggage
       /\ DictKeys(Entries(result.value))
             = DictKeys(Entries(baggage))
                  \cup {PairKey(Pieces(header)[i]) : i \in Pairs(header)}
       /\ \A k \in DictKeys(Entries(result.value)) :
             DictGet(Entries(result.value), k)
                = IF PairsWithKey(header, k) = {}
                  THEN DictGet(Entries(baggage), k)
                  ELSE PairValue(Pieces(header)[
                          CHOOSE i \in PairsWithKey(header, k) :
                              \A j \in PairsWithKey(header, k) : j <= i])
       /\ (header = ExampleHeader /\ baggage = None)
             => result.value = Some(ExampleBaggage)

C9_Witness ==
    /\ pc = "parsed" /\ header = ExampleHeader
    /\ baggage = Some(<<<<<<97>>, <<48>>>>>>)
    /\ result.value = Some(ExampleBaggage)

ZipkinFields == <<F_trace_id, F_span_id, F_parent_id, F_traceflags>>

NoField ==
    <<"carrier has no trace_id", "carrier has no span_id",
      "carrier has no parent_id", "carrier has no traceflags">>

MissingFields == {i \in 1..4 : ~DictHas(carrier.items, ZipkinFields[i])}

ZipkinExtracted == pc = "extracted" /\ codec.kind = "zipkin"

\* The carrier's trace_id is absent or zero.
NoTraceId ==
    \/ ~DictHas(carrier.items, F_trace_id)
    \/ DictGet(carrier.items, F_trace_id) \in {None, Some(<<>>)}

\* C10: ZipkinCodec.extract on an attribute carrier that lacks one of
\* trace_id, span_id, parent_id, traceflags raises InvalidCarrierException
\* naming the first missing one in that order; on a dict carrier a missing
\* field is read as None without an error; and when no field is missing from
\* an attribute carrier, or the carrier is a dict, extract returns None
\* whenever trace_id is zero or None.
C10_ZipkinStrict ==
    ZipkinExtracted
    => /\ (carrier.shape = "object" /\ MissingFields # {})
          => /\ Raised("InvalidCarrierException")
             /\ \E i \in MissingFields :
                   /\ \A j \in MissingFields : i <= j
                   /\ result.msg = NoField[i]
       /\ carrier.shape = "dict"
          => /\ result.kind = "return"
             /\ (ReturnedContext /\ 2 \in MissingFields) => Got.span_id = None
             /\ (ReturnedContext /\ 3 \in MissingFields) => Got.parent_id = None
             /\ (ReturnedContext /\ 4 \in MissingFields) => Got.flags = None
       /\ (carrier.shape = "dict" \/ MissingFields = {})
          => (NoTraceId <=> result = Return(None))

C10_Witness ==
    /\ ZipkinExtracted /\ carrier.shape = "object"
    /\ MissingFields = {3, 4}
    /\ result.msg = "carrier has no parent_id"

=============================================================================
